---- MODULE Spec2Model ----
(***************************************************************************)
(* A model of the Earth_Sat satellite tracker.                             *)
(*                                                                         *)
(*   app.py      Flask service: load_tle_data fills the global map         *)
(*               `satellites`, get_position answers POST /get_position.    *)
(*   open.py     Dash dashboard: fetch_tle_data (cached satellite list),   *)
(*               calculate_visibility, get_pass_predictions.               *)
(*   segment1.py SatelliteTracker: calculate_ground_track, is_visible.     *)
(*                                                                         *)
(* app.py and open.py are two separate programs (each has its own          *)
(* __main__); `prog` says which one a behaviour runs.  Strings that the    *)
(* code strips or compares are sequences of one-character strings.  Every  *)
(* call leaves its arguments in `call` and its result in `ret`.            *)
(***************************************************************************)
EXTENDS Integers, Sequences, FiniteSets, TLC

VARIABLES
    prog,        \* what runs: "app" (app.py), "open" (open.py), "calc" (one computation)
    pc,          \* "main" at the start; app.py: then "serving"; a computation: "loop", "done"
    tle_text,    \* app.py: response.text.splitlines() that TLE_URL serves
    fetch_ok,    \* app.py: requests.get / raise_for_status succeed
    satellites,  \* app.py: the global dict  name -> EarthSatellite
    tle_data,    \* open.py: the list of TLE records fetch_tle_data builds from
    tle_cache,   \* open.py: the global cache {data, timestamp}
    now,         \* open.py: datetime.datetime.now(), in minutes
    call,        \* the last call: [op, arg]
    ret,         \* what the last call returned (or printed)
    propagations,    \* calls of satellite.sgp4 / satellite.at the running call has made
    tracker,         \* segment1.py: the attributes of the SatelliteTracker object
    threads,         \* open.py: the request threads inside fetch_tle_data
    location_store,  \* open.py: the data of dcc.Store 'location-store'
    last_location    \* open.py: the observer location a button last set

\* what only some of the programs use
rest == <<tracker, threads, location_store, last_location>>

vars == <<prog, pc, tle_text, fetch_ok, satellites, tle_data, tle_cache, now, call, ret,
          propagations, rest>>

(***************************************************************************)
(* Bounds of the model.                                                    *)
(***************************************************************************)
MaxLines == 9        \* lines of the TLE text served to load_tle_data
MaxTle == 3          \* records of tle_data in fetch_tle_data
MaxClock == 20       \* minutes the wall clock of open.py runs
SubSec == 2          \* clock ticks per second: datetimes carry a sub-second part
MaxTick == 8         \* the pass window of find_events, in ticks
MaxEvents == 6       \* events find_events returns
MaxHours == 2        \* duration_hours of a ground track
MaxStartTick == 3    \* start_time of a ground track, in ticks
MaxTimes == 3        \* timestamps handed to get_satellite_positions
MaxViz == 2          \* TLEs in the tle_list of create_visualization

(***************************************************************************)
(* Strings.                                                                *)
(***************************************************************************)
IsSpace(c) == c = " "

RECURSIVE LStrip(_)
LStrip(s) == IF s # <<>> /\ IsSpace(Head(s)) THEN LStrip(Tail(s)) ELSE s

RECURSIVE RStrip(_)
RStrip(s) ==
    IF s # <<>> /\ IsSpace(s[Len(s)]) THEN RStrip(SubSeq(s, 1, Len(s) - 1)) ELSE s

\* str.strip(): leading and trailing whitespace removed
Strip(s) == RStrip(LStrip(s))

\* the lines a served text is made of: names (with and without padding, two of
\* them equal once stripped) and TLE lines (well-formed or not)
NameLines == { <<"A">>, <<" ", "B", " ">>, <<"A", " ">> }
GoodTle == <<"1">>
BadTle == <<"?">>
TleLines == { GoodTle, BadTle }

\* line k (1-based) of a text: a name on lines 1, 4, 7, ..., a TLE line otherwise
LineChoices(k) == IF k % 3 = 1 THEN NameLines ELSE TleLines

RECURSIVE TextsOfLen(_)
TextsOfLen(n) ==
    IF n = 0 THEN { <<>> }
    ELSE { Append(t, l) : t \in TextsOfLen(n - 1), l \in LineChoices(n) }

Texts == UNION { TextsOfLen(n) : n \in 0..MaxLines }

(***************************************************************************)
(* skyfield's EarthSatellite(line1, line2, name, ts).                      *)
(***************************************************************************)
\* the constructor raises on an element set it cannot parse
EarthSatelliteRaises(line1, line2) == line1 = BadTle \/ line2 = BadTle

EarthSatellite(line1, line2, name) ==
    [name |-> Strip(name), line1 |-> line1, line2 |-> line2]

EmptyMap == [k \in {} |-> {}]

\* before any call
NoCall == [op |-> "none", arg |-> <<>>]
NoRet == [none |-> TRUE]

\* satellites[name] = sat
Put(map, name, sat) ==
    [k \in DOMAIN map \cup {name} |-> IF k = name THEN sat ELSE map[k]]

(***************************************************************************)
(* app.py: load_tle_data                                                   *)
(***************************************************************************)
\* for i in range(0, len(tle_lines), 3): ... ; i is Python's 0-based index.
\* The result is the map as the loop leaves it and whether it left by an exception.
RECURSIVE LoadLoop(_, _, _)
LoadLoop(lines, i, sats) ==
    IF i >= Len(lines) THEN [sats |-> sats, raised |-> FALSE]
    ELSE IF i + 2 >= Len(lines) THEN [sats |-> sats, raised |-> FALSE]
    ELSE LET name  == Strip(lines[i + 1])
             line1 == Strip(lines[i + 2])
             line2 == Strip(lines[i + 3])
         IN  IF EarthSatelliteRaises(line1, line2)
             THEN [sats |-> sats, raised |-> TRUE]
             ELSE LoadLoop(lines, i + 3,
                           Put(sats, name, EarthSatellite(line1, line2, name)))

\* the whole function: the try block, satellites.clear(), the loop, the except
LoadTleDataResult(ok, lines, old) ==
    IF ~ok THEN [sats |-> old, raised |-> TRUE]
    ELSE LoadLoop(lines, 0, EmptyMap)

LoadTleData ==
    /\ prog = "app"
    /\ pc = "main"
    /\ LET r == LoadTleDataResult(fetch_ok, tle_text, satellites)
       IN  /\ satellites' = r.sats
           /\ call' = [op |-> "load_tle_data", arg |-> tle_text]
           /\ ret' = [printed |-> IF r.raised THEN "Error loading TLE data"
                                  ELSE "Loaded"]
    /\ pc' = "serving"
    /\ UNCHANGED <<prog, tle_text, fetch_ok, tle_data, tle_cache, now, propagations, rest>>

(***************************************************************************)
(* app.py: get_position                                                    *)
(***************************************************************************)
\* JSON values of the request's "satellite" field
Null == [t |-> "null", v |-> <<>>]
Str(s) == [t |-> "str", v |-> s]
List(l) == [t |-> "list", v |-> l]

FieldValues ==
    { Null, Str(<<>>), Str(<<"A">>), Str(<<"B">>), Str(<<" ", "B", " ">>),
      Str(<<"Z">>), List(<<>>), List(<< <<"A">> >>) }

\* a request: json = the body parses as a JSON object; has = it has the field
Requests ==
    { [json |-> FALSE, has |-> FALSE, val |-> Null] }
      \cup { [json |-> TRUE, has |-> FALSE, val |-> Null] }
      \cup { [json |-> TRUE, has |-> TRUE, val |-> v] : v \in FieldValues }

\* Python truth value: None, "" and [] are false
Truthy(val) == val.t # "null" /\ val.v # <<>>

\* a list cannot be hashed: `x in dict` raises TypeError
Hashable(val) == val.t # "list"

\* satellite_name in satellites
InSatellites(val, sats) == val.t = "str" /\ val.v \in DOMAIN sats

\* the names segment1.py binds at module level
Segment1Names ==
    { "Satrec", "jday", "np", "datetime", "timedelta", "go", "make_subplots",
      "pd", "SatelliteTracker" }

\* from segment1 import <name>: ImportError unless segment1 binds the name
ImportFromSegment1(name) == name \in Segment1Names

Status400 == 400
Status500 == 500
Status200 == 200

ErrorResponse(status, msg) == [status |-> status, kind |-> "error", error |-> msg]
PositionResponse(sat) ==
    [status |-> Status200, kind |-> "position", error |-> "",
     latitude |-> <<"lat", sat.line1, sat.line2>>,
     longitude |-> <<"lon", sat.line1, sat.line2>>,
     altitude |-> <<"alt", sat.line1, sat.line2>>]

GetPositionResponse(req, sats) ==
    IF ~req.json
    THEN ErrorResponse(Status500, "exception")   \* data is not a dict
    ELSE LET satellite_name == IF req.has THEN req.val ELSE Null   \* data.get
         IN  IF ~Truthy(satellite_name)
             THEN ErrorResponse(Status400, "Invalid satellite name")
             ELSE IF ~Hashable(satellite_name)
             THEN ErrorResponse(Status500, "exception")   \* TypeError
             ELSE IF ~InSatellites(satellite_name, sats)
             THEN ErrorResponse(Status400, "Invalid satellite name")
             ELSE IF ~ImportFromSegment1("get_satellite_position")
             THEN ErrorResponse(Status500, "exception")   \* ImportError
             ELSE PositionResponse(sats[satellite_name.v])

GetPosition ==
    /\ prog = "app"
    /\ pc = "serving"
    /\ \E req \in Requests :
          /\ call' = [op |-> "get_position", arg |-> req]
          /\ ret' = GetPositionResponse(req, satellites)
    /\ UNCHANGED <<prog, pc, tle_text, fetch_ok, satellites, tle_data, tle_cache,
                  now, propagations, rest>>

(***************************************************************************)
(* open.py: the TLE cache and fetch_tle_data                               *)
(***************************************************************************)
ExpiresInMinutes == 15

NoneData == [some |-> FALSE, v |-> <<>>]
NoneTime == [some |-> FALSE, v |-> 0]
Some(x) == [some |-> TRUE, v |-> x]

\* the records tle_data may hold: the literal list of the source is two
\* well-formed records; the loop is modelled for any list of such dicts
TleRecords ==
    { [name |-> n, line1 |-> l1, line2 |-> GoodTle] :
        n \in { <<"I">>, <<"H", " ">> }, l1 \in TleLines }

RECURSIVE TleLists(_)
TleLists(n) ==
    IF n = 0 THEN { <<>> }
    ELSE { Append(t, r) : t \in TleLists(n - 1), r \in TleRecords }

TleDataChoices == UNION { TleLists(n) : n \in 0..MaxTle }

\* a cache that expires as soon as its age reaches expires_in
ShouldRefreshCacheAtExpiry(cache, clock) ==
    IF ~cache.timestamp.some THEN TRUE
    ELSE clock - cache.timestamp.v >= ExpiresInMinutes

ShouldRefreshCache(cache, clock) ==
    IF ~cache.timestamp.some THEN TRUE
    ELSE clock - cache.timestamp.v > ExpiresInMinutes

\* for sat in tle_data: try: satellites.append(EarthSatellite(...)) except: continue
RECURSIVE BuildSatellites(_, _, _)
BuildSatellites(data, k, acc) ==
    IF k > Len(data) THEN acc
    ELSE LET sat == data[k]
         IN  IF EarthSatelliteRaises(sat.line1, sat.line2)
             THEN BuildSatellites(data, k + 1, acc)
             ELSE BuildSatellites(data, k + 1,
                    Append(acc, EarthSatellite(sat.line1, sat.line2, sat.name)))

FetchTleData ==
    /\ prog = "open"
    /\ IF ~ShouldRefreshCache(tle_cache, now)
       THEN /\ ret' = tle_cache.data
            /\ call' = [op |-> "fetch_tle_data",
                           arg |-> [refreshed |-> FALSE, at |-> now]]
            /\ UNCHANGED tle_cache
       ELSE LET sats == BuildSatellites(tle_data, 1, <<>>)
            IN  /\ tle_cache' = [data |-> Some(sats), timestamp |-> Some(now)]
                /\ ret' = Some(sats)
                /\ call' = [op |-> "fetch_tle_data",
                               arg |-> [refreshed |-> TRUE, at |-> now]]
    /\ UNCHANGED <<prog, pc, tle_text, fetch_ok, satellites, tle_data, now, propagations, rest>>

\* the wall clock moves on between two calls
Tick ==
    /\ prog = "open"
    /\ now < MaxClock
    /\ now' = now + 1
    /\ UNCHANGED <<prog, pc, tle_text, fetch_ok, satellites, tle_data, tle_cache,
                  call, ret, propagations, rest>>

(***************************************************************************)
(* The two programs with a loader: app.py and open.py                      *)
(***************************************************************************)
\* SatelliteTracker.__init__: earth_radius in metres, e2 in units of 1e-8
SatelliteTrackerInit == [earth_radius |-> 6378137, e2 |-> 669438]

\* the request threads: two, the fewest whose calls can overlap
Threads == { "A", "B" }

\* a thread outside fetch_tle_data
ThreadIdle ==
    [pc |-> "idle", clock |-> 0, expired |-> FALSE, seen |-> NoneTime,
     satellites |-> <<>>, ret |-> NoRet]

\* the variables a program does not use stay as they are here
InitRest ==
    /\ propagations = 0
    /\ tracker = SatelliteTrackerInit
    /\ threads = [t \in Threads |-> ThreadIdle]
    /\ location_store = NoneData
    /\ last_location = NoneData

InitApp ==
    /\ prog = "app"
    /\ pc = "main"
    /\ tle_text \in Texts
    /\ fetch_ok \in BOOLEAN
    /\ satellites = EmptyMap
    /\ tle_data = <<>>
    /\ tle_cache = [data |-> NoneData, timestamp |-> NoneTime]
    /\ now = 0
    /\ call = NoCall
    /\ ret = NoRet
    /\ InitRest

InitOpen ==
    /\ prog = "open"
    /\ pc = "main"
    /\ tle_text = <<>>
    /\ fetch_ok = TRUE
    /\ satellites = EmptyMap
    /\ tle_data \in TleDataChoices
    /\ tle_cache = [data |-> NoneData, timestamp |-> NoneTime]
    /\ now = 0
    /\ call = NoCall
    /\ ret = NoRet
    /\ InitRest

Init == InitApp \/ InitOpen

Next == LoadTleData \/ GetPosition \/ FetchTleData \/ Tick

Spec == Init /\ [][Next]_vars

(***************************************************************************)
(* Visibility: SatelliteTracker.is_visible and calculate_visibility.       *)
(* Angles are integers, in thousandths of a degree; what round(x, 2)       *)
(* returns is in hundredths.                                               *)
(***************************************************************************)
DefaultMinElevation == 10000      \* min_elevation=10

\* the elevation angle the geometry gives (np.degrees(np.arctan2(...)) in
\* is_visible, topocentric[0].degrees in calculate_visibility)
ElevationChoices ==
    { -5000, 0, 9994, 9995, 9996, 10000, 10004, 10005, 10006, 10010, 10015, 45000 }
MinElevationChoices == { 0, DefaultMinElevation, DefaultMinElevation + 10 }
AzimuthChoices == { 0, 12345, 359994 }

\* 2^k modulo n
RECURSIVE Pow2Mod(_, _)
Pow2Mod(k, n) == IF k = 0 THEN 1 % n ELSE (2 * Pow2Mod(k - 1, n)) % n

\* the binary exponent of the float m/1000, m > 0: the e with
\* 2^e <= m/1000 < 2^(e+1); p is 1000 * 2^(e+1)
RECURSIVE ExponentUp(_, _, _)
ExponentUp(m, p, e) == IF p <= m THEN ExponentUp(m, 2 * p, e + 1) ELSE e

RECURSIVE ExponentDown(_, _)
ExponentDown(m, e) == IF m >= 1000 THEN e ELSE ExponentDown(2 * m, e - 1)

FloatExponent(m) == IF m >= 1000 THEN ExponentUp(m, 2000, 0) ELSE ExponentDown(m, 0)

\* The angle is a binary float: m thousandths stand for the float nearest to
\* m/1000, whose 53-bit significand is m * 2^k / 1000 rounded, k = 52 - exponent.
\* The remainder of m * 2^k by 1000 says where the float lies: 0 the float is
\* m/1000 exactly, below 500 the significand was rounded down and the float
\* is below m/1000, above 500 it is above.
FloatRemainder(m) == ((m % 1000) * Pow2Mod(52 - FloatExponent(m), 1000)) % 1000

\* round(x, 2) of a float x >= 0, in hundredths: the float is rounded
\* correctly, so a decimal tie is decided by the side of the tie the float
\* lies on, and only a tie the float holds exactly goes to the even hundredth
Round2Abs(m) ==
    LET q == m \div 10
        r == m % 10
    IN  IF r < 5 THEN q
        ELSE IF r > 5 THEN q + 1
        ELSE IF FloatRemainder(m) = 0 THEN (IF q % 2 = 0 THEN q ELSE q + 1)
        ELSE IF FloatRemainder(m) < 500 THEN q
        ELSE q + 1

\* round(x, 2)
Round2(m) == IF m < 0 THEN 0 - Round2Abs(0 - m) ELSE Round2Abs(m)

\* SatelliteTracker.is_visible: (elevation >= min_elevation, elevation)
IsVisibleResult(elevation, min_elevation) ==
    [visible |-> elevation >= min_elevation, elevation |-> elevation]

\* what calculate_visibility returns from its except clause
DefaultVisibility == [visible |-> FALSE, elevation |-> 0, azimuth |-> 0]

\* calculate_visibility; raises = something in the try block raised
CalculateVisibilityResult(raises, elevation, azimuth, min_elevation) ==
    IF raises THEN DefaultVisibility
    ELSE [visible |-> elevation > min_elevation,
          elevation |-> Round2(elevation),
          azimuth |-> Round2(azimuth)]

IsVisibleCalls ==
    { [op |-> "is_visible",
       arg |-> [elevation |-> e, min_elevation |-> m]] :
        e \in ElevationChoices, m \in MinElevationChoices }

\* the calls of satellite.at that calculate_visibility makes: the one of
\* pos = satellite.at(t), unless wgs84.latlon has raised before it
VisibilityPropagations(latlon_raises) == IF latlon_raises THEN 0 ELSE 1

\* raises: something in the try block raised; latlon_raises: it was
\* wgs84.latlon (lat or lon None), before the satellite is propagated
CalculateVisibilityCalls ==
    { [op |-> "calculate_visibility",
       arg |-> [raises |-> FALSE, latlon_raises |-> FALSE, elevation |-> e,
                azimuth |-> a, min_elevation |-> m]] :
        e \in ElevationChoices, a \in AzimuthChoices, m \in MinElevationChoices }
    \cup
    { [op |-> "calculate_visibility",
       arg |-> [raises |-> TRUE, latlon_raises |-> l, elevation |-> 0,
                azimuth |-> 0, min_elevation |-> m]] :
        l \in BOOLEAN, m \in MinElevationChoices }

IsVisible ==
    /\ prog = "calc"
    /\ pc = "main"
    /\ call.op = "is_visible"
    /\ ret' = IsVisibleResult(call.arg.elevation, call.arg.min_elevation)
    /\ pc' = "done"
    /\ UNCHANGED <<prog, tle_text, fetch_ok, satellites, tle_data, tle_cache,
                  now, call, propagations, rest>>

CalculateVisibility ==
    /\ prog = "calc"
    /\ pc = "main"
    /\ call.op = "calculate_visibility"
    /\ ret' = CalculateVisibilityResult(call.arg.raises, call.arg.elevation,
                                        call.arg.azimuth, call.arg.min_elevation)
    /\ propagations' = VisibilityPropagations(call.arg.latlon_raises)
    /\ pc' = "done"
    /\ UNCHANGED <<prog, tle_text, fetch_ok, satellites, tle_data, tle_cache,
                  now, call, rest>>

(***************************************************************************)
(* get_pass_predictions.  An event is [t, kind]: t in ticks, kind as       *)
(* find_events numbers it: 0 rise, 1 culmination, 2 set.                   *)
(***************************************************************************)
Rise == 0
Culminate == 1
SetEvent == 2
EventKinds == { Rise, Culminate, SetEvent }

\* kind b may follow kind a: a rise is followed by a culmination, a culmination
\* by another culmination or by the set, a set by the next rise
MayFollow(a, b) ==
    \/ a = Rise /\ b = Culminate
    \/ a = Culminate /\ b \in { Culminate, SetEvent }
    \/ a = SetEvent /\ b = Rise

\* event e may be appended to the sequence s: times ascend, kinds follow
Extends(s, e) ==
    s = <<>> \/ (s[Len(s)].t < e.t /\ MayFollow(s[Len(s)].kind, e.kind))

\* the event sequences of n events within the window; the window may open and
\* close in the middle of a pass
RECURSIVE EventSeqsOfLen(_)
EventSeqsOfLen(n) ==
    IF n = 0 THEN { <<>> }
    ELSE LET shorter == EventSeqsOfLen(n - 1)
             events == { [t |-> t, kind |-> k] : t \in 0..MaxTick, k \in EventKinds }
         IN  { Append(x[1], x[2]) :
                 x \in { y \in shorter \X events : Extends(y[1], y[2]) } }

EventSeqs == UNION { EventSeqsOfLen(n) : n \in 0..MaxEvents }

\* strftime('%Y-%m-%d %H:%M:%S') of utc_datetime(): the sub-second part is dropped
Strftime(t) == t \div SubSec

\* str(timedelta).split('.')[0]: the sub-second part of the difference is dropped
DurationStr(d) == d \div SubSec

\* MakePass with the duration taken up to the culmination instead of the set
MakePassToMax(rise_time, max_time, set_time) ==
    [rise |-> Strftime(rise_time),
     max |-> Strftime(max_time),
     set |-> Strftime(set_time),
     duration |-> DurationStr(max_time - rise_time)]

\* the dict one iteration appends, from times[i], times[i+1], times[i+2]
MakePass(rise_time, max_time, set_time) ==
    [rise |-> Strftime(rise_time),
     max |-> Strftime(max_time),
     set |-> Strftime(set_time),
     duration |-> DurationStr(set_time - rise_time)]

\* for i in range(0, len(times), 3): if i + 2 < len(times): passes.append(...)
RECURSIVE PassLoop(_, _, _)
PassLoop(events, i, passes) ==
    IF i >= Len(events) THEN passes
    ELSE IF i + 2 < Len(events)
    THEN PassLoop(events, i + 3,
                  Append(passes, MakePass(events[i + 1].t, events[i + 2].t,
                                          events[i + 3].t)))
    ELSE PassLoop(events, i + 3, passes)

\* get_pass_predictions; raises = wgs84.latlon or find_events raised
GetPassPredictionsResult(raises, events) ==
    IF raises THEN <<>> ELSE PassLoop(events, 0, <<>>)

GetPassPredictionsCalls ==
    { [op |-> "get_pass_predictions", arg |-> [raises |-> FALSE, events |-> s]] :
        s \in EventSeqs }
    \cup { [op |-> "get_pass_predictions", arg |-> [raises |-> TRUE, events |-> <<>>]] }

GetPassPredictions ==
    /\ prog = "calc"
    /\ pc = "main"
    /\ call.op = "get_pass_predictions"
    /\ ret' = GetPassPredictionsResult(call.arg.raises, call.arg.events)
    /\ pc' = "done"
    /\ UNCHANGED <<prog, tle_text, fetch_ok, satellites, tle_data, tle_cache,
                  now, call, propagations, rest>>

(***************************************************************************)
(* SatelliteTracker.calculate_ground_track.  start_time is in ticks.       *)
(***************************************************************************)
TicksPerMinute == 60 * SubSec

\* the satellites propagated: sgp4 returns a nonzero error code for the whole
\* seconds from `from` up to (not including) `to`
Healthy == [from |-> 0, to |-> 0]
SatelliteChoices ==
    { Healthy, [from |-> 0, to |-> 100000], [from |-> 1800, to |-> 100000],
      [from |-> 0, to |-> 601], [from |-> 600, to |-> 3000] }

StepChoices == { 1, 7, 25, 45, 60, 61, 120, 121 }

\* jday(year, month, day, hour, minute, second): the instant to the whole
\* second, current_time.microsecond is not passed
JDay(t) == t \div SubSec

\* satellite.sgp4(jd, fr): the error code and the position at that second
Sgp4(sat, sec) ==
    [e |-> IF sat.from <= sec /\ sec < sat.to THEN 1 ELSE 0,
     r |-> [sat |-> sat, sec |-> sec]]

\* eci_to_lla(r, gst): the sub-satellite point of the position r, on the
\* ellipsoid self.earth_radius, self.e2
EciToLla(r) ==
    [lla_of |-> r.sat, at |-> r.sec * SubSec,
     earth_radius |-> tracker.earth_radius, e2 |-> tracker.e2]

\* the locals on entry: positions = [], times = [], the range at its first value
GroundTrackEntry == [minutes |-> 0, positions |-> <<>>, times |-> <<>>]

\* range(0, duration_hours * 60, step_minutes) has a value left
InRange(minutes, duration_hours) == minutes < duration_hours * 60

\* one iteration of the loop body, on the locals l
GroundTrackBody(sat, start_time, step_minutes, l) ==
    LET current_time == start_time + l.minutes * TicksPerMinute
        res == Sgp4(sat, JDay(current_time))
    IN  IF res.e = 0
        THEN [minutes |-> l.minutes + step_minutes,
              positions |-> Append(l.positions, EciToLla(res.r)),
              times |-> Append(l.times, current_time)]
        ELSE [minutes |-> l.minutes + step_minutes,
              positions |-> l.positions,
              times |-> l.times]

CalculateGroundTrackCalls ==
    { [op |-> "calculate_ground_track",
       arg |-> [satellite |-> sat, start_time |-> t0,
                duration_hours |-> h, step_minutes |-> st]] :
        sat \in SatelliteChoices, t0 \in 0..MaxStartTick,
        h \in 0..MaxHours, st \in StepChoices }

\* the call is entered: while the loop runs, ret holds the locals
GroundTrackEnter ==
    /\ prog = "calc"
    /\ pc = "main"
    /\ call.op = "calculate_ground_track"
    /\ ret' = GroundTrackEntry
    /\ pc' = "loop"
    /\ propagations' = 0
    /\ UNCHANGED <<prog, tle_text, fetch_ok, satellites, tle_data, tle_cache, now, call, rest>>

GroundTrackIterate ==
    /\ prog = "calc"
    /\ pc = "loop"
    /\ InRange(ret.minutes, call.arg.duration_hours)
    /\ ret' = GroundTrackBody(call.arg.satellite, call.arg.start_time,
                              call.arg.step_minutes, ret)
    /\ propagations' = propagations + 1
    /\ UNCHANGED <<prog, pc, tle_text, fetch_ok, satellites, tle_data, tle_cache, now, call, rest>>

\* return positions, times
GroundTrackReturn ==
    /\ prog = "calc"
    /\ pc = "loop"
    /\ ~InRange(ret.minutes, call.arg.duration_hours)
    /\ ret' = [positions |-> ret.positions, times |-> ret.times]
    /\ pc' = "done"
    /\ UNCHANGED <<prog, tle_text, fetch_ok, satellites, tle_data, tle_cache,
                  now, call, propagations, rest>>

(***************************************************************************)
(* get_satellite_positions (open.py): the positions of a satellite at the  *)
(* given timestamps.                                                       *)
(***************************************************************************)
\* the timestamps handed over, in ticks
TimeChoices == { 0, 600 * SubSec + 1, 1800 * SubSec }

RECURSIVE TimesOfLen(_)
TimesOfLen(n) ==
    IF n = 0 THEN { <<>> }
    ELSE { Append(ts, t) : ts \in TimesOfLen(n - 1), t \in TimeChoices }

\* satellite.at(t) raises
AtRaises(sat, t) == sat.from <= t \div SubSec /\ t \div SubSec < sat.to

\* pos.subpoint(): the dict of lat, lon, alt appended for the timestamp t
Subpoint(sat, t) == [subpoint_of |-> sat, at |-> t]

\* the loop over times, from the k-th timestamp on
RECURSIVE GetSatellitePositionsLoop(_, _, _, _)
GetSatellitePositionsLoop(sat, times, k, positions) ==
    IF k > Len(times) THEN positions
    ELSE GetSatellitePositionsLoop(sat, times, k + 1,
             IF AtRaises(sat, times[k]) THEN positions
             ELSE Append(positions, Subpoint(sat, times[k])))

GetSatellitePositionsCalls ==
    { [op |-> "get_satellite_positions", arg |-> [satellite |-> sat, times |-> ts]] :
        sat \in SatelliteChoices, ts \in UNION { TimesOfLen(n) : n \in 0..MaxTimes } }

\* the whole call: satellite.at is called for every timestamp, then the list
\* is returned
GetSatellitePositions ==
    /\ prog = "calc"
    /\ pc = "main"
    /\ call.op = "get_satellite_positions"
    /\ ret' = GetSatellitePositionsLoop(call.arg.satellite, call.arg.times, 1, <<>>)
    /\ propagations' = Len(call.arg.times)
    /\ pc' = "done"
    /\ UNCHANGED <<prog, tle_text, fetch_ok, satellites, tle_data, tle_cache, now, call, rest>>

(***************************************************************************)
(* The computations, each applied once to arguments drawn at the start     *)
(***************************************************************************)
InitCalc ==
    /\ prog = "calc"
    /\ pc = "main"
    /\ tle_text = <<>>
    /\ fetch_ok = TRUE
    /\ satellites = EmptyMap
    /\ tle_data = <<>>
    /\ tle_cache = [data |-> NoneData, timestamp |-> NoneTime]
    /\ now = 0
    /\ call \in IsVisibleCalls \cup CalculateVisibilityCalls
                \cup GetPassPredictionsCalls \cup CalculateGroundTrackCalls
                \cup GetSatellitePositionsCalls
    /\ ret = NoRet
    /\ InitRest

NextCalc ==
    \/ IsVisible
    \/ CalculateVisibility
    \/ GetPassPredictions
    \/ GroundTrackEnter
    \/ GroundTrackIterate
    \/ GroundTrackReturn
    \/ GetSatellitePositions

SpecCalc == InitCalc /\ [][NextCalc]_vars

\* a call that has been entered runs on until it returns
SpecCalcFair == SpecCalc /\ WF_vars(NextCalc)

(***************************************************************************)
(* fetch_tle_data called from several request threads (open.py): the       *)
(* callbacks of the dashboard run in the threads of the server, and the    *)
(* function takes no lock.  A thread is at "check" (line 40), "now"        *)
(* (line 42, before datetime.now()), "compare" (line 42, before the read   *)
(* of the timestamp), "cached" (line 47), "build" (lines 50-68),           *)
(* "write_data" (line 70), "write_ts" (line 71, before datetime.now()),    *)
(* "store_ts" (line 71, before the store), "return" (line 72), then        *)
(* "returned".  Threads may be switched between any two of these.          *)
(***************************************************************************)
\* a write that stamps the cache as fresh
StampCache(cache, sats, clock) == [cache EXCEPT !.timestamp = Some(clock)]

\* tle_cache['data'] = satellites
CacheAfterDataWrite(cache, sats, clock) == [cache EXCEPT !.data = Some(sats)]

\* tle_cache['timestamp'] = datetime.datetime.now()
CacheAfterTimestampWrite(cache, sats, clock) == [cache EXCEPT !.timestamp = Some(clock)]

\* the hard-coded tle_data: two records, the first with a line 1 that parses
\* or not
FetchTleLists ==
    { d \in TleDataChoices :
        /\ Len(d) = 2
        /\ d[1].name = <<"I">>
        /\ d[2].name = <<"H", " ">>
        /\ d[2].line1 = GoodTle }

fetchRest == <<prog, pc, tle_text, fetch_ok, satellites, tle_data, now, call, ret,
               propagations, tracker, location_store, last_location>>

\* a request thread calls fetch_tle_data
ThreadCall ==
    /\ prog = "open"
    /\ \E t \in Threads :
          /\ threads[t].pc \in { "idle", "returned" }
          /\ threads' = [threads EXCEPT ![t] = [ThreadIdle EXCEPT !.pc = "check"]]
    /\ UNCHANGED <<tle_cache, fetchRest>>

\* should_refresh_cache, line 40: if not tle_cache['timestamp']: return True.
\* expired keeps the outcome of the test and seen the timestamp it read
ThreadCheck ==
    /\ prog = "open"
    /\ \E t \in Threads :
          /\ threads[t].pc = "check"
          /\ threads' = [threads EXCEPT ![t] =
                IF ~tle_cache.timestamp.some
                THEN [@ EXCEPT !.pc = "build", !.expired = TRUE,
                                !.seen = tle_cache.timestamp]
                ELSE [@ EXCEPT !.pc = "now"]]
    /\ UNCHANGED <<tle_cache, fetchRest>>

\* line 42, left operand: datetime.datetime.now()
ThreadReadNow ==
    /\ prog = "open"
    /\ \E t \in Threads :
          /\ threads[t].pc = "now"
          /\ threads' = [threads EXCEPT ![t] = [@ EXCEPT !.pc = "compare", !.clock = now]]
    /\ UNCHANGED <<tle_cache, fetchRest>>

\* line 42: tle_cache['timestamp'] is read and the difference compared
ThreadCompare ==
    /\ prog = "open"
    /\ \E t \in Threads :
          /\ threads[t].pc = "compare"
          /\ threads' = [threads EXCEPT ![t] =
                IF ShouldRefreshCache(tle_cache, threads[t].clock)
                THEN [@ EXCEPT !.pc = "build", !.clock = 0, !.expired = TRUE,
                                !.seen = tle_cache.timestamp]
                ELSE [@ EXCEPT !.pc = "cached", !.clock = 0]]
    /\ UNCHANGED <<tle_cache, fetchRest>>

\* return tle_cache['data']
ThreadReturnCached ==
    /\ prog = "open"
    /\ \E t \in Threads :
          /\ threads[t].pc = "cached"
          /\ threads' = [threads EXCEPT ![t] =
                [@ EXCEPT !.pc = "returned", !.ret = tle_cache.data]]
    /\ UNCHANGED <<tle_cache, fetchRest>>

\* the local list satellites is built from tle_data
ThreadBuild ==
    /\ prog = "open"
    /\ \E t \in Threads :
          /\ threads[t].pc = "build"
          /\ threads' = [threads EXCEPT ![t] =
                [@ EXCEPT !.pc = "write_data",
                          !.satellites = BuildSatellites(tle_data, 1, <<>>)]]
    /\ UNCHANGED <<tle_cache, fetchRest>>

ThreadWriteData ==
    /\ prog = "open"
    /\ \E t \in Threads :
          /\ threads[t].pc = "write_data"
          /\ tle_cache' = CacheAfterDataWrite(tle_cache, threads[t].satellites, now)
          /\ threads' = [threads EXCEPT ![t] = [@ EXCEPT !.pc = "write_ts"]]
    /\ UNCHANGED fetchRest

\* line 71, right-hand side: datetime.datetime.now()
ThreadStampNow ==
    /\ prog = "open"
    /\ \E t \in Threads :
          /\ threads[t].pc = "write_ts"
          /\ threads' = [threads EXCEPT ![t] = [@ EXCEPT !.pc = "store_ts", !.clock = now]]
    /\ UNCHANGED <<tle_cache, fetchRest>>

\* line 71: the value read from the clock is stored
ThreadWriteTimestamp ==
    /\ prog = "open"
    /\ \E t \in Threads :
          /\ threads[t].pc = "store_ts"
          /\ tle_cache' = CacheAfterTimestampWrite(tle_cache, threads[t].satellites,
                                                   threads[t].clock)
          /\ threads' = [threads EXCEPT ![t] = [@ EXCEPT !.pc = "return", !.clock = 0]]
    /\ UNCHANGED fetchRest

\* return satellites
ThreadReturn ==
    /\ prog = "open"
    /\ \E t \in Threads :
          /\ threads[t].pc = "return"
          /\ threads' = [threads EXCEPT ![t] =
                [@ EXCEPT !.pc = "returned", !.ret = Some(threads[t].satellites)]]
    /\ UNCHANGED <<tle_cache, fetchRest>>

InitFetch ==
    /\ prog = "open"
    /\ pc = "main"
    /\ tle_text = <<>>
    /\ fetch_ok = TRUE
    /\ satellites = EmptyMap
    /\ tle_data \in FetchTleLists
    /\ tle_cache = [data |-> NoneData, timestamp |-> NoneTime]
    /\ now = 0
    /\ call = NoCall
    /\ ret = NoRet
    /\ InitRest

NextFetch ==
    \/ ThreadCall
    \/ ThreadCheck
    \/ ThreadReadNow
    \/ ThreadCompare
    \/ ThreadReturnCached
    \/ ThreadBuild
    \/ ThreadWriteData
    \/ ThreadStampNow
    \/ ThreadWriteTimestamp
    \/ ThreadReturn
    \/ Tick

SpecFetch == InitFetch /\ [][NextFetch]_vars

(***************************************************************************)
(* create_visualization (segment1.py): for every TLE of tle_list the       *)
(* ground track from `now` with the default duration and step, then the    *)
(* traces drawn from it.  While the loops run, ret holds the locals.       *)
(***************************************************************************)
DefaultDurationHours == 24
DefaultStepMinutes == 10

RECURSIVE TleListsOfLen(_)
TleListsOfLen(n) ==
    IF n = 0 THEN { <<>> }
    ELSE { Append(l, sat) : l \in TleListsOfLen(n - 1), sat \in SatelliteChoices }

\* now = datetime.utcnow(), and the satellites Satrec.twoline2rv makes of the TLEs
CreateVisualizationCalls ==
    { [op |-> "create_visualization", arg |-> [tle_list |-> l, now |-> t0]] :
        l \in UNION { TleListsOfLen(n) : n \in 0..MaxViz }, t0 \in 0..MaxStartTick }

\* lats, lons, alts = zip(*positions): unpacking raises ValueError when
\* positions is empty
ZipRaises(positions) == positions = <<>>

\* the 'current position' trace: lat=[lats[0]], lon=[lons[0]]
CurrentTrace(positions, times) == [position |-> positions[1], time |-> times[1]]

VizEnter ==
    /\ prog = "calc"
    /\ pc = "main"
    /\ call.op = "create_visualization"
    /\ ret' = [i |-> 1, track |-> GroundTrackEntry, current |-> <<>>]
    /\ propagations' = 0
    /\ pc' = "loop"
    /\ UNCHANGED <<prog, tle_text, fetch_ok, satellites, tle_data, tle_cache, now, call, rest>>

\* one iteration of the loop of calculate_ground_track(satellite, now)
VizIterate ==
    /\ prog = "calc"
    /\ pc = "loop"
    /\ call.op = "create_visualization"
    /\ ret.i <= Len(call.arg.tle_list)
    /\ InRange(ret.track.minutes, DefaultDurationHours)
    /\ ret' = [ret EXCEPT !.track =
                  GroundTrackBody(call.arg.tle_list[ret.i], call.arg.now,
                                  DefaultStepMinutes, ret.track)]
    /\ propagations' = propagations + 1
    /\ UNCHANGED <<prog, pc, tle_text, fetch_ok, satellites, tle_data, tle_cache, now, call, rest>>

\* the track is returned and its traces are added, or the unpacking raises
\* and the exception leaves create_visualization
VizPlot ==
    /\ prog = "calc"
    /\ pc = "loop"
    /\ call.op = "create_visualization"
    /\ ret.i <= Len(call.arg.tle_list)
    /\ ~InRange(ret.track.minutes, DefaultDurationHours)
    /\ IF ZipRaises(ret.track.positions)
       THEN /\ ret' = [raised |-> TRUE, current |-> ret.current]
            /\ pc' = "done"
       ELSE /\ ret' = [i |-> ret.i + 1, track |-> GroundTrackEntry,
                       current |-> Append(ret.current,
                                     CurrentTrace(ret.track.positions, ret.track.times))]
            /\ pc' = pc
    /\ UNCHANGED <<prog, tle_text, fetch_ok, satellites, tle_data, tle_cache, now, call,
                   propagations, rest>>

\* return fig
VizReturn ==
    /\ prog = "calc"
    /\ pc = "loop"
    /\ call.op = "create_visualization"
    /\ ret.i > Len(call.arg.tle_list)
    /\ ret' = [raised |-> FALSE, current |-> ret.current]
    /\ pc' = "done"
    /\ UNCHANGED <<prog, tle_text, fetch_ok, satellites, tle_data, tle_cache, now, call,
                   propagations, rest>>

InitViz ==
    /\ prog = "calc"
    /\ pc = "main"
    /\ tle_text = <<>>
    /\ fetch_ok = TRUE
    /\ satellites = EmptyMap
    /\ tle_data = <<>>
    /\ tle_cache = [data |-> NoneData, timestamp |-> NoneTime]
    /\ now = 0
    /\ call \in CreateVisualizationCalls
    /\ ret = NoRet
    /\ InitRest

NextViz == VizEnter \/ VizIterate \/ VizPlot \/ VizReturn

SpecViz == InitViz /\ [][NextViz]_vars

(***************************************************************************)
(* update_displays (open.py): the callback behind the interval timer and   *)
(* the two location buttons.  Coordinates are in ten-thousandths of a      *)
(* degree.  No callback has 'location-store' as an Output, so its data     *)
(* stays what the layout gives it.                                         *)
(***************************************************************************)
NycLat == 407128
NycLon == -740060

Triggers == { "none", "interval-component", "set-loc", "use-location" }

\* the values of the inputs 'lat' and 'lon': None while a field is empty
ManualLatChoices == { NoneTime, Some(-900000), Some(0), Some(515000) }
ManualLonChoices == { NoneTime, Some(0), Some(-1000), Some(1800000) }

\* what the geometry gives in one run: an elevation above or below the
\* threshold, and the events find_events returns
GeometryChoices ==
    { [elevation |-> 45000, azimuth |-> 12345,
       events |-> << [t |-> 0, kind |-> Rise], [t |-> 3, kind |-> Culminate],
                     [t |-> 6, kind |-> SetEvent] >>],
      [elevation |-> 9995, azimuth |-> 12345, events |-> <<>>] }

\* the sky of one run: the geometry, and the names of the satellites for
\* which sat.at(t) raises in the loop of update_displays
SkyChoices ==
    { sky \in { [elevation |-> g.elevation, azimuth |-> g.azimuth, events |-> g.events,
                 at_raises |-> f] :
                   g \in GeometryChoices, f \in { {}, { <<"I">> } } } :
        sky.at_raises = {} \/ sky.events # <<>> }

\* get_satellite_positions(sat, ts.linspace(t - 0.01, t, 20)): the timestamps
\* of the trail
TrailSamples == 20

NoLocation == [lat |-> NoneTime, lon |-> NoneTime]

\* the if / elif chain that chooses lat, lon
ObserverLocation(trigger_id, manual_lat, manual_lon, stored_location) ==
    IF trigger_id = "use-location"
    THEN [lat |-> Some(NycLat), lon |-> Some(NycLon)]
    ELSE IF trigger_id = "set-loc" /\ manual_lat.some /\ manual_lon.some
    THEN [lat |-> manual_lat, lon |-> manual_lon]
    ELSE IF stored_location.some
    THEN [lat |-> Some(stored_location.v.lat), lon |-> Some(stored_location.v.lon)]
    ELSE NoLocation

\* `lat and lon`: None and 0 are false
LatAndLon(loc) == loc.lat.some /\ loc.lat.v # 0 /\ loc.lon.some /\ loc.lon.v # 0

\* `lat is not None and lon is not None`
LatLonNotNone(loc) == loc.lat.some /\ loc.lon.some

\* fetch_tle_data() called where no other call overlaps: the cache afterwards
FetchedCache(cache, clock, data) ==
    IF ~ShouldRefreshCache(cache, clock) THEN cache
    ELSE [data |-> Some(BuildSatellites(data, 1, <<>>)), timestamp |-> Some(clock)]

\* the table row of one satellite
SatEntry(sat, loc, sky) ==
    LET visibility == IF LatAndLon(loc)
                      THEN CalculateVisibilityResult(FALSE, sky.elevation, sky.azimuth,
                                                     DefaultMinElevation)
                      ELSE DefaultVisibility
        passes == IF LatAndLon(loc) THEN GetPassPredictionsResult(FALSE, sky.events)
                  ELSE <<>>
    IN  [name |-> Strip(sat.name),
         visible |-> visibility.visible,
         elevation |-> visibility.elevation,
         next_pass |-> IF passes # <<>> THEN Some(passes[1].rise) ELSE NoneTime]

\* the satellites whose loop body runs to its end: when sat.at(t) raises, the
\* except clause prints and the loop goes on with the next satellite
Processed(sats, sky) == SelectSeq(sats, LAMBDA sat : sat.name \notin sky.at_raises)

\* visible_sats: the names appended for the rows that are visible
VisibleSats(rows) ==
    LET vis == SelectSeq(rows, LAMBDA row : row.visible)
    IN  [i \in 1..Len(vis) |-> vis[i].name]

\* the calls of satellite.at made for the k-th satellite on: the one of the
\* loop body, and when it does not raise the one of calculate_visibility
\* (made only with lat and lon) and those of the trail
RECURSIVE DisplayPropagations(_, _, _, _)
DisplayPropagations(sats, k, loc, sky) ==
    IF k > Len(sats) THEN 0
    ELSE (IF sats[k].name \in sky.at_raises THEN 1
          ELSE 1 + (IF LatAndLon(loc) THEN VisibilityPropagations(FALSE) ELSE 0)
                 + TrailSamples)
         + DisplayPropagations(sats, k + 1, loc, sky)

\* fig, satellite_data, status_panel, predictions_panel; a panel is the list
\* of the children of its inner Div
Displays(sats, loc, sky) ==
    LET rows == [i \in 1..Len(Processed(sats, sky)) |->
                    SatEntry(Processed(sats, sky)[i], loc, sky)]
    IN  [prevented |-> FALSE,
         lat |-> loc.lat,
         lon |-> loc.lon,
         marker |-> LatLonNotNone(loc),
         satellite_data |-> rows,
         status_panel |->
             IF LatAndLon(loc)
             THEN << [observer |-> [lat |-> loc.lat.v, lon |-> loc.lon.v],
                      visible_sats |-> VisibleSats(rows)] >>
             ELSE <<>>,
         predictions_panel |->
             IF LatAndLon(loc)
             THEN Some([i \in 1..Len(sats) |->
                          [name |-> sats[i].name,
                           passes |-> GetPassPredictionsResult(FALSE, sky.events)]])
             ELSE NoneData]

UpdateDisplays ==
    /\ prog = "open"
    /\ \E trigger_id \in Triggers, manual_lat \in ManualLatChoices,
          manual_lon \in ManualLonChoices, sky \in SkyChoices :
          /\ call' = [op |-> "update_displays",
                      arg |-> [trigger_id |-> trigger_id, manual_lat |-> manual_lat,
                               manual_lon |-> manual_lon,
                               stored_location |-> location_store, sky |-> sky]]
          /\ IF trigger_id = "none"
             THEN /\ ret' = [prevented |-> TRUE]
                  /\ propagations' = 0
                  /\ UNCHANGED <<tle_cache, last_location>>
             ELSE LET loc == ObserverLocation(trigger_id, manual_lat, manual_lon,
                                              location_store)
                      cache == FetchedCache(tle_cache, now, tle_data)
                  IN  /\ tle_cache' = cache
                      /\ ret' = Displays(cache.data.v, loc, sky)
                      /\ propagations' = DisplayPropagations(cache.data.v, 1, loc, sky)
                      /\ last_location' =
                            IF trigger_id = "use-location"
                               \/ (trigger_id = "set-loc" /\ manual_lat.some
                                     /\ manual_lon.some)
                            THEN Some([lat |-> loc.lat.v, lon |-> loc.lon.v])
                            ELSE last_location
    /\ UNCHANGED <<prog, pc, tle_text, fetch_ok, satellites, tle_data, now,
                   tracker, threads, location_store>>

InitDash ==
    /\ prog = "open"
    /\ pc = "main"
    /\ tle_text = <<>>
    /\ fetch_ok = TRUE
    /\ satellites = EmptyMap
    /\ tle_data \in FetchTleLists
    /\ tle_cache = [data |-> NoneData, timestamp |-> NoneTime]
    /\ now = 0
    /\ call = NoCall
    /\ ret = NoRet
    /\ InitRest

\* the runs follow one another within the life of the cache
NextDash == UpdateDisplays

SpecDash == InitDash /\ [][NextDash]_vars

(***************************************************************************)
(* Claims about app.py and the loaders                                     *)
(***************************************************************************)
\* the complete three-line groups of a text: group k is lines 3k+1 .. 3k+3
Groups(lines) == { k \in 0..Len(lines) : 3 * k + 2 < Len(lines) }
GroupName(lines, k) == Strip(lines[3 * k + 1])
GroupRaises(lines, k) ==
    EarthSatelliteRaises(Strip(lines[3 * k + 2]), Strip(lines[3 * k + 3]))

Answered == prog = "app" /\ call.op = "get_position"
Loaded == prog = "app" /\ call.op = "load_tle_data" /\ fetch_ok

\* C1: a get_position request naming a key of the satellites map is answered
\* with a success response carrying latitude, longitude and altitude, not an error.
C1_KnownNameGetsPosition ==
    (Answered /\ call.arg.json /\ call.arg.has
        /\ InSatellites(call.arg.val, satellites))
    => (ret.kind = "position" /\ ret.status = Status200)

\* a JSON object whose 'satellite' field is missing, empty or not a key of the map
InvalidName(req, sats) ==
    /\ req.json
    /\ \/ ~req.has
       \/ req.val.v = <<>>
       \/ ~(Hashable(req.val) /\ InSatellites(req.val, sats))

\* C2: a get_position request whose 'satellite' field is missing, empty or not a
\* key of the map is answered 400 'Invalid satellite name', and the map is unchanged.
C2_InvalidNameRejected ==
    [][ (prog = "app" /\ call'.op = "get_position"
            /\ InvalidName(call'.arg, satellites))
        => (/\ ret' = ErrorResponse(Status400, "Invalid satellite name")
            /\ satellites' = satellites) ]_vars

\* C3: load_tle_data loads exactly the complete three-line groups of the text: the
\* keys are their stripped names, a trailing partial group is ignored without
\* error, and fewer than 3 lines give an empty map.
C3_LoadsExactlyCompleteGroups ==
    Loaded =>
        /\ DOMAIN satellites = { GroupName(tle_text, k) : k \in Groups(tle_text) }
        /\ (Len(tle_text) < 3 => satellites = EmptyMap /\ ret.printed = "Loaded")

\* C4: in both loaders a record whose construction raises is the only one
\* skipped: every other record of the batch is still loaded.
C4_OnlyBadRecordSkipped ==
    /\ Loaded =>
          \A k \in Groups(tle_text) :
              ~GroupRaises(tle_text, k) => GroupName(tle_text, k) \in DOMAIN satellites
    /\ (prog = "open" /\ call.op = "fetch_tle_data" /\ call.arg.refreshed) =>
          \A k \in 1..Len(tle_data) :
              ~EarthSatelliteRaises(tle_data[k].line1, tle_data[k].line2) =>
                  \E j \in 1..Len(ret.v) :
                      ret.v[j] = EarthSatellite(tle_data[k].line1, tle_data[k].line2,
                                                tle_data[k].name)

(***************************************************************************)
(* Claims about visibility, pass predictions and the ground track          *)
(***************************************************************************)
Returned(op) == prog = "calc" /\ pc = "done" /\ call.op = op

\* C5: every visibility check classifies a satellite as visible exactly when
\* elevation >= the threshold (an elevation equal to the threshold is visible),
\* in SatelliteTracker.is_visible and in calculate_visibility.
C5_VisibleIffAtLeastThreshold ==
    /\ Returned("is_visible") =>
          (ret.visible <=> call.arg.elevation >= call.arg.min_elevation)
    /\ (Returned("calculate_visibility") /\ ~call.arg.raises) =>
          (ret.visible <=> call.arg.elevation >= call.arg.min_elevation)

\* C6: a failure while computing visibility or pass predictions is never
\* returned as the default result: not {visible: False, elevation: 0, azimuth: 0}
\* from calculate_visibility, not an empty pass list from get_pass_predictions.
C6_FailureNotDefault ==
    /\ (Returned("calculate_visibility") /\ call.arg.raises) =>
          ret # [visible |-> FALSE, elevation |-> 0, azimuth |-> 0]
    /\ (Returned("get_pass_predictions") /\ call.arg.raises) =>
          ret # <<>>

\* the rise of a pass still open when the window ends: a rise with no set after it
OpenRises(events) ==
    { i \in 1..Len(events) :
        /\ events[i].kind = Rise
        /\ \A m \in i + 1..Len(events) : events[m].kind = Culminate }

\* C7: a pass still above the threshold when the window ends (a rise, or a rise
\* and a culmination, with no set) is reported and tagged as truncated.
C7_TrailingPassTagged ==
    (Returned("get_pass_predictions") /\ ~call.arg.raises) =>
        \A i \in OpenRises(call.arg.events) :
            \E j \in 1..Len(ret) :
                /\ ret[j].rise = call.arg.events[i].t \div SubSec
                /\ "truncated" \in DOMAIN ret[j]

\* C8: every reported pass is one above-threshold interval of the event
\* sequence: its rise is the time of a rise event, its max the time of a
\* culmination and its set the time of the set event of that same interval.
C8_PassIsOneInterval ==
    (Returned("get_pass_predictions") /\ ~call.arg.raises) =>
        LET ev == call.arg.events
        IN  \A j \in 1..Len(ret) :
                \E a \in 1..Len(ev), b \in 1..Len(ev), c \in 1..Len(ev) :
                    /\ a < b /\ b < c
                    /\ ev[a].kind = Rise /\ ev[c].kind = SetEvent
                    /\ \A m \in a + 1..c - 1 : ev[m].kind = Culminate
                    /\ ret[j].rise = ev[a].t \div SubSec
                    /\ ret[j].max = ev[b].t \div SubSec
                    /\ ret[j].set = ev[c].t \div SubSec

\* C9 as stated: every reported pass has rise <= max <= set and a reported
\* duration equal to its set minus its rise.
C9_DurationIsSetMinusRise ==
    Returned("get_pass_predictions") =>
        \A j \in 1..Len(ret) :
            /\ ret[j].rise <= ret[j].max /\ ret[j].max <= ret[j].set
            /\ ret[j].duration = ret[j].set - ret[j].rise

\* C9, amended: every reported pass has rise <= max <= set; its reported
\* duration is the difference of the set and rise event times cut to whole
\* seconds, which is the difference of the reported set and rise or one second less.
C9_DurationTruncated ==
    Returned("get_pass_predictions") =>
        \A j \in 1..Len(ret) :
            /\ ret[j].rise <= ret[j].max /\ ret[j].max <= ret[j].set
            /\ ret[j].duration =
                  (call.arg.events[3 * j].t - call.arg.events[3 * j - 2].t) \div SubSec
            /\ ret[j].duration \in { ret[j].set - ret[j].rise - 1,
                                     ret[j].set - ret[j].rise }

\* a pass was reported whose duration is one second less than set minus rise
C9_Witness ==
    /\ Returned("get_pass_predictions")
    /\ \E j \in 1..Len(ret) :
          /\ ret[j].duration = ret[j].set - ret[j].rise - 1
          /\ ret[j].rise < ret[j].max /\ ret[j].max < ret[j].set

Ceil(a, b) == (a + b - 1) \div b

\* the sample instants of a call: start_time + k * step_minutes minutes
SampleTimes(arg) ==
    { arg.start_time + k * arg.step_minutes * TicksPerMinute :
        k \in { n \in 0..arg.duration_hours * 60 :
                  n * arg.step_minutes < arg.duration_hours * 60 } }

\* propagation succeeds at the instant t
Propagates(sat, t) == ~(sat.from <= t \div SubSec /\ t \div SubSec < sat.to)

\* what holds of the lists returned, but for the instant a position is computed for
GroundTrackLists(arg, positions, times) ==
    /\ Len(positions) = Len(times)
    /\ Len(times) <= Ceil(arg.duration_hours * 60, arg.step_minutes)
    /\ \A i \in 1..Len(times) - 1 : times[i] < times[i + 1]
    /\ { times[i] : i \in 1..Len(times) }
         = { t \in SampleTimes(arg) : Propagates(arg.satellite, t) }
    /\ \A i \in 1..Len(positions) : positions[i].lla_of = arg.satellite

\* C10 as stated: positions and times have equal length, at most
\* ceil(duration_hours*60 / step_minutes); times is strictly increasing, made of
\* the instants start_time + k*step_minutes whose propagation succeeds; and
\* positions[i] is the position computed for times[i].
C10_PositionForSampleTime ==
    Returned("calculate_ground_track") =>
        /\ GroundTrackLists(call.arg, ret.positions, ret.times)
        /\ \A i \in 1..Len(ret.positions) : ret.positions[i].at = ret.times[i]

\* C10 with the instant as the code passes it to jday: cut to the whole second
C10_ListsAndTruncatedInstant ==
    Returned("calculate_ground_track") =>
        /\ GroundTrackLists(call.arg, ret.positions, ret.times)
        /\ \A i \in 1..Len(ret.positions) :
              ret.positions[i].at = (ret.times[i] \div SubSec) * SubSec

\* What the code does give (C10 but for the instant): the call terminates with
\* the lists as stated, and positions[i] is the position computed for times[i]
\* cut to the whole second.  Checked under SpecCalcFair.
C10_GroundTrackTerminates ==
    /\ []C10_ListsAndTruncatedInstant
    /\ (prog = "calc" /\ call.op = "calculate_ground_track") ~> (pc = "done")

\* a track was returned for a start_time with a sub-second part, with a sample
\* omitted and more than one sample kept
C10_Witness ==
    /\ Returned("calculate_ground_track")
    /\ call.arg.start_time % SubSec # 0
    /\ Len(ret.times) >= 2
    /\ Len(ret.times) < Ceil(call.arg.duration_hours * 60, call.arg.step_minutes)

(***************************************************************************)
(* Claims about the sampler and the cache                                  *)
(***************************************************************************)
\* the timestamps tried up to and including the first that gave a sample
FirstSampleIndex ==
    IF call.op = "calculate_ground_track"
    THEN (ret.times[1] - call.arg.start_time)
            \div (call.arg.step_minutes * TicksPerMinute) + 1
    ELSE CHOOSE k \in 1..Len(call.arg.times) :
            /\ ~AtRaises(call.arg.satellite, call.arg.times[k])
            /\ \A j \in 1..(k - 1) : AtRaises(call.arg.satellite, call.arg.times[j])

\* C12: the sampler is lazy: when the first sample reaches the caller, no
\* later timestamp has been propagated (a caller that takes only the first
\* sample has caused no propagation beyond it).
C12_FirstSampleBeforeLater ==
    /\ (Returned("calculate_ground_track") /\ Len(ret.positions) >= 1)
          => propagations <= FirstSampleIndex
    /\ (Returned("get_satellite_positions") /\ Len(ret) >= 1)
          => propagations <= FirstSampleIndex

\* a ground track reached the caller only after every timestamp was propagated
C12_Witness ==
    /\ Returned("calculate_ground_track")
    /\ Len(ret.positions) >= 2
    /\ propagations = Ceil(call.arg.duration_hours * 60, call.arg.step_minutes)

\* C13: fetch_tle_data rebuilds the satellite list and re-stamps the cache
\* exactly when the cache has never been populated or its timestamp is more
\* than 15 minutes old; in every other call it returns the cached list and
\* leaves the cached data and the timestamp unchanged.
C13_RefreshExactlyWhenStale ==
    [][(prog = "open" /\ now' = now) =>
          IF ~tle_cache.timestamp.some \/ now - tle_cache.timestamp.v > 15
          THEN /\ tle_cache' = [data |-> Some(BuildSatellites(tle_data, 1, <<>>)),
                                timestamp |-> Some(now)]
               /\ ret' = tle_cache'.data
               /\ call'.arg.refreshed
          ELSE /\ tle_cache' = tle_cache
               /\ ret' = tle_cache.data
               /\ ~call'.arg.refreshed]_vars

\* a call made when the cache was exactly 15 minutes old returned the cached,
\* non-empty list
C13_Witness ==
    /\ prog = "open"
    /\ call.op = "fetch_tle_data"
    /\ ~call.arg.refreshed
    /\ tle_cache.timestamp.some
    /\ call.arg.at - tle_cache.timestamp.v = 15
    /\ ret = tle_cache.data
    /\ Len(ret.v) >= 1

\* the thread found the cache expired and has written tle_cache['data']
Wrote(t) ==
    threads[t].expired /\ threads[t].pc \in { "write_ts", "store_ts", "return", "returned" }

\* C14: of the concurrent callers of fetch_tle_data that find the cache
\* expired, at most one rebuilds and writes the cache for that expiry: no two
\* threads whose checks read the same timestamp both write.
C14_SingleWriter ==
    prog = "open" =>
        \A t1, t2 \in Threads :
            (t1 # t2 /\ Wrote(t1) /\ Wrote(t2))
                => threads[t1].seen # threads[t2].seen

\* two threads are past the check at once, both on their way to the write
C14_Witness ==
    /\ prog = "open"
    /\ \E t1, t2 \in Threads :
          /\ t1 # t2
          /\ threads[t1].pc = "write_data"
          /\ threads[t2].pc = "write_data"
          /\ threads[t1].seen = threads[t2].seen

\* C16: under every interleaving of concurrent fetch_tle_data calls, whenever
\* should_refresh_cache() returns False the cached data is the fully built
\* satellite list, never None, and fetch_tle_data never returns None.
C16_FreshImpliesBuilt ==
    prog = "open" =>
        /\ ~ShouldRefreshCache(tle_cache, now)
              => tle_cache.data = Some(BuildSatellites(tle_data, 1, <<>>))
        /\ \A t \in Threads :
              /\ threads[t].pc = "cached"
                    => tle_cache.data = Some(BuildSatellites(tle_data, 1, <<>>))
              /\ threads[t].pc = "returned"
                    => threads[t].ret = Some(BuildSatellites(tle_data, 1, <<>>))

\* a thread returned the cached list while another thread had written the
\* data of a refresh and not yet its timestamp
C16_Witness ==
    /\ prog = "open"
    /\ \E t1, t2 \in Threads :
          /\ threads[t1].pc = "returned"
          /\ ~threads[t1].expired
          /\ threads[t1].ret.some
          /\ threads[t2].pc \in { "write_ts", "store_ts" }

\* C15: create_visualization raises no exception for any satellite, also not
\* for one whose propagation fails at every sampled timestamp; and the point
\* it plots as a satellite's current position is the sample at start time now.
C15_NoRaiseAndCurrentIsNow ==
    Returned("create_visualization") =>
        /\ ~ret.raised
        /\ \A i \in 1..Len(ret.current) : ret.current[i].time = call.arg.now

\* the call ended in the exception of the unpacking, after a satellite whose
\* current point was drawn
C15_Witness ==
    /\ Returned("create_visualization")
    /\ ret.raised
    /\ Len(ret.current) = 1

(***************************************************************************)
(* Claims about update_displays                                            *)
(***************************************************************************)
Displayed == prog = "open" /\ call.op = "update_displays" /\ ~ret.prevented

\* C17: once an observer location has been set through 'Set Location' or
\* 'Use My Location', every later interval-triggered run of update_displays
\* uses that location, until another location is set.
C17_IntervalKeepsLocation ==
    (Displayed /\ call.arg.trigger_id = "interval-component" /\ last_location.some)
        => /\ ret.lat = Some(last_location.v.lat)
           /\ ret.lon = Some(last_location.v.lon)

\* the timer ran the callback after a location with non-zero coordinates was set
C17_Witness ==
    /\ Displayed
    /\ call.arg.trigger_id = "interval-component"
    /\ last_location.some
    /\ last_location.v.lat # 0
    /\ last_location.v.lon # 0

\* C18: for every observer location with latitude in [-90, 90] and longitude
\* in [-180, 180], latitude 0 and longitude 0 included, update_displays
\* treats the location as set: it computes visibility and pass predictions
\* for each satellite, as it draws the observer marker.
C18_ZeroIsALocation ==
    (Displayed /\ ret.lat.some /\ ret.lon.some)
        => /\ ret.marker
           /\ ret.status_panel # <<>>
           /\ ret.predictions_panel.some
           /\ \A i \in 1..Len(ret.satellite_data) :
                 /\ ret.satellite_data[i].visible
                       = (call.arg.sky.elevation > DefaultMinElevation)
                 /\ ret.satellite_data[i].next_pass.some = (call.arg.sky.events # <<>>)

\* 'Set Location' was clicked with latitude 0: the marker is drawn, for a
\* satellite high in the sky with a pass ahead
C18_Witness ==
    /\ Displayed
    /\ call.arg.trigger_id = "set-loc"
    /\ ret.lat = Some(0)
    /\ ret.lon.some
    /\ ret.marker
    /\ call.arg.sky.elevation > DefaultMinElevation
    /\ Len(ret.satellite_data) >= 1

====
